---- MODULE Spec2Model ----
(***************************************************************************)
(* Model of eqint.solver.EquitableBudgetAllocator: construction (bound     *)
(* validation, aggregate properties, solution table), the continuous       *)
(* solver _solve_x, the evaluators allocations / _integer_allocations,     *)
(* solve and __eq__.                                                        *)
(*                                                                         *)
(* An optional integer (int | None) is a sequence of length at most one:   *)
(* <<>> is None and <<v>> is the integer v.  The values that take part in   *)
(* float arithmetic are numbers sign * m * 2^e (see "ints and floats"): a  *)
(* float is a binary64 value, every operation on floats rounds its exact   *)
(* result to the nearest float, ties to even.  All magnitudes stay far     *)
(* inside the binary64 exponent range, so no result is infinite or         *)
(* subnormal.                                                              *)
(***************************************************************************)
EXTENDS Integers, Sequences, FiniteSets, TLC

\* ------------------------------------------------------------------ bounds
MaxLen == 3
MaxVal == 1
MaxBudget == 4

Vals == (0 - MaxVal)..MaxVal
Budgets == (0 - MaxBudget)..MaxBudget

\* ------------------------------------------------------- optional integers
None == <<>>
Some(v) == <<v>>
IsNone(o) == Len(o) = 0
IsSome(o) == Len(o) = 1
Get(o) == o[1]

OptVals == {None} \cup {Some(v) : v \in Vals}
\* Bound = tuple[int | None, int | None]
Bound == OptVals \X OptVals
\* Bounds = typing.Sequence[Bound], of bounded length
BoundsOfLen(n) == [1..n -> Bound]
Bounds == UNION {BoundsOfLen(n) : n \in 0..MaxLen}

\* ------------------------------------------- natural numbers of any size
\* The digits of a natural number in base Base, least significant first,
\* without a leading zero digit; <<>> is 0.
DigitBits == 15
Base == 2 ^ DigitBits

Abs(a) == IF a < 0 THEN 0 - a ELSE a
Sign(k) == IF k > 0 THEN 1 ELSE IF k < 0 THEN 0 - 1 ELSE 0
Digit(n, i) == IF i <= Len(n) THEN n[i] ELSE 0
Zeros(n) == [i \in 1..n |-> 0]

RECURSIVE Trim(_)
Trim(n) == IF Len(n) > 0 /\ n[Len(n)] = 0 THEN Trim(SubSeq(n, 1, Len(n) - 1)) ELSE n

RECURSIVE NatOf(_)
NatOf(k) == IF k = 0 THEN <<>> ELSE <<k % Base>> \o NatOf(k \div Base)
RECURSIVE IntOf(_)
IntOf(n) == IF Len(n) = 0 THEN 0 ELSE n[1] + Base * IntOf(Tail(n))

RECURSIVE AddLoop(_, _, _, _)
AddLoop(a, b, i, carry) ==
    IF i > Len(a) /\ i > Len(b) THEN (IF carry = 0 THEN <<>> ELSE <<carry>>)
    ELSE LET s == Digit(a, i) + Digit(b, i) + carry
         IN  <<s % Base>> \o AddLoop(a, b, i + 1, s \div Base)
NatAdd(a, b) == AddLoop(a, b, 1, 0)

\* a - b for a >= b
RECURSIVE SubLoop(_, _, _, _)
SubLoop(a, b, i, borrow) ==
    IF i > Len(a) THEN <<>>
    ELSE LET d == a[i] - Digit(b, i) - borrow
         IN  IF d < 0 THEN <<d + Base>> \o SubLoop(a, b, i + 1, 1)
             ELSE <<d>> \o SubLoop(a, b, i + 1, 0)
NatSub(a, b) == Trim(SubLoop(a, b, 1, 0))

\* -1, 0 or 1 as a < b, a = b or a > b
RECURSIVE CmpLoop(_, _, _)
CmpLoop(a, b, i) ==
    IF i = 0 THEN 0
    ELSE IF a[i] < b[i] THEN 0 - 1
    ELSE IF a[i] > b[i] THEN 1
    ELSE CmpLoop(a, b, i - 1)
NatCmp(a, b) ==
    IF Len(a) < Len(b) THEN 0 - 1
    ELSE IF Len(a) > Len(b) THEN 1
    ELSE CmpLoop(a, b, Len(a))

\* a * k for one digit k (0 < k <= Base)
RECURSIVE MulLoop(_, _, _, _)
MulLoop(a, k, i, carry) ==
    IF i > Len(a) THEN (IF carry = 0 THEN <<>> ELSE <<carry>>)
    ELSE LET p == a[i] * k + carry
         IN  <<p % Base>> \o MulLoop(a, k, i + 1, p \div Base)
RECURSIVE NatMul(_, _)
NatMul(a, b) ==
    IF Len(a) = 0 \/ Len(b) = 0 THEN <<>>
    ELSE NatAdd(IF b[1] = 0 THEN <<>> ELSE MulLoop(a, b[1], 1, 0),
                <<0>> \o NatMul(a, Tail(b)))

\* a \div k and a % k for 0 < k < 2 * Base, from the most significant digit
RECURSIVE DivLoop(_, _, _, _)
DivLoop(a, k, i, rem) ==
    IF i = 0 THEN [q |-> <<>>, r |-> rem]
    ELSE LET t == rem * Base + a[i]
             rest == DivLoop(a, k, i - 1, t % k)
         IN  [q |-> Append(rest.q, t \div k), r |-> rest.r]
NatDivSmall(a, k) ==
    LET d == DivLoop(a, k, Len(a), 0)
    IN  [q |-> Trim(d.q), r |-> d.r]

\* a * 2^k and a \div 2^k
NatShl(a, k) ==
    IF Len(a) = 0 \/ k = 0 THEN a
    ELSE Zeros(k \div DigitBits) \o MulLoop(a, 2 ^ (k % DigitBits), 1, 0)
NatShr(a, k) ==
    IF k = 0 THEN a
    ELSE IF k \div DigitBits >= Len(a) THEN <<>>
    ELSE NatDivSmall(SubSeq(a, (k \div DigitBits) + 1, Len(a)), 2 ^ (k % DigitBits)).q

\* the number of binary digits, and of trailing zero binary digits (a > 0)
RECURSIVE BitLenSmall(_)
BitLenSmall(k) == IF k = 0 THEN 0 ELSE 1 + BitLenSmall(k \div 2)
NatBitLen(a) ==
    IF Len(a) = 0 THEN 0 ELSE DigitBits * (Len(a) - 1) + BitLenSmall(a[Len(a)])
RECURSIVE TzSmall(_)
TzSmall(k) == IF k % 2 = 1 THEN 0 ELSE 1 + TzSmall(k \div 2)
RECURSIVE NatTz(_)
NatTz(a) == IF a[1] = 0 THEN DigitBits + NatTz(Tail(a)) ELSE TzSmall(a[1])

\* ------------------------------------------------------- ints and floats
\* A number is sign * m * 2^e with sign in {-1, 0, 1}, m a natural number
\* that is odd (or sign = 0, m = 0, e = 0) and e an integer: every value has
\* one representation.  An int is a number with e >= 0; a float is a number
\* whose m has at most MantBits binary digits.
MantBits == 53
Zero == [sign |-> 0, m |-> <<>>, e |-> 0]
Number(sign, m, e) ==
    IF sign = 0 \/ Len(m) = 0 THEN Zero
    ELSE LET tz == NatTz(m)
         IN  [sign |-> sign, m |-> NatShr(m, tz), e |-> e + tz]

\* the int k, and the value of an int small enough to be written out
OfInt(k) == Number(Sign(k), NatOf(Abs(k)), 0)
ToInt(x) == x.sign * IntOf(NatShl(x.m, x.e))

\* exact arithmetic
Neg(x) == [x EXCEPT !.sign = 0 - @]
Add(x, y) ==
    IF x.sign = 0 THEN y
    ELSE IF y.sign = 0 THEN x
    ELSE LET e == IF x.e < y.e THEN x.e ELSE y.e
             p == NatShl(x.m, x.e - e)
             q == NatShl(y.m, y.e - e)
             c == NatCmp(p, q)
         IN  IF x.sign = y.sign THEN Number(x.sign, NatAdd(p, q), e)
             ELSE IF c = 0 THEN Zero
             ELSE IF c > 0 THEN Number(x.sign, NatSub(p, q), e)
             ELSE Number(y.sign, NatSub(q, p), e)
Mul(x, y) == Number(x.sign * y.sign, NatMul(x.m, y.m), x.e + y.e)
Less(x, y) == Add(x, Neg(y)).sign < 0

\* the float nearest to sign * (m + t) * 2^e, ties to even, where t = 0, or
\* 0 < t < 1 when sticky (m then has more than MantBits + 1 binary digits)
RoundNearestEven(sign, m, e, sticky) ==
    LET sh == NatBitLen(m) - MantBits
    IN  IF sh <= 0 THEN Number(sign, m, e)
        ELSE LET q == NatShr(m, sh)
                 c == NatCmp(NatSub(m, NatShl(q, sh)), NatShl(<<1>>, sh - 1))
                 up == c > 0 \/ (c = 0 /\ (sticky \/ q[1] % 2 = 1))
             IN  Number(sign, IF up THEN NatAdd(q, <<1>>) ELSE q, e + sh)
\* float(v) for an exact value v
ToFloat(v) == RoundNearestEven(v.sign, v.m, v.e, FALSE)
\* float(i) for an int i
Float(i) == ToFloat(OfInt(i))

\* a / b for an int a (a number) and an int b with 0 < b < Base: the
\* quotient to GuardBits binary places, then rounded
GuardBits == 5 * DigitBits
TrueDiv(a, b) ==
    LET d == NatDivSmall(Zeros(GuardBits \div DigitBits) \o NatShl(a.m, a.e), b)
    IN  RoundNearestEven(a.sign, d.q, 0 - GuardBits, d.r # 0)
\* x + y, x - y and x * y on floats
FAdd(x, y) == ToFloat(Add(x, y))
FSub(x, y) == ToFloat(Add(x, Neg(y)))
FMul(x, y) == ToFloat(Mul(x, y))

\* x < i and x > i for a float x and an int i
FloatLt(x, i) == Less(x, OfInt(i))
FloatGt(x, i) == Less(OfInt(i), x)

\* the whole part of |x|
Whole(x) == IF x.e >= 0 THEN NatShl(x.m, x.e) ELSE NatShr(x.m, 0 - x.e)
\* math.floor(x), math.ceil(x): ints of any size
FloorOf(x) ==
    IF x.e >= 0 THEN x
    ELSE IF x.sign > 0 THEN Number(1, Whole(x), 0)
    ELSE Number(0 - 1, NatAdd(Whole(x), <<1>>), 0)
CeilOf(x) ==
    IF x.e >= 0 THEN x
    ELSE IF x.sign > 0 THEN Number(1, NatAdd(Whole(x), <<1>>), 0)
    ELSE Number(0 - 1, Whole(x), 0)
\* math.floor, math.ceil
Floor(x) == ToInt(FloorOf(x))
Ceil(x) == ToInt(CeilOf(x))
\* round(x): the nearest int, ties to even
Round(x) ==
    IF x.e >= 0 THEN x
    ELSE LET q == Whole(x)
             c == NatCmp(NatSub(x.m, NatShl(q, 0 - x.e)), NatShl(<<1>>, (0 - x.e) - 1))
             up == c > 0 \/ (c = 0 /\ Digit(q, 1) % 2 = 1)
         IN  Number(x.sign, IF up THEN NatAdd(q, <<1>>) ELSE q, 0)
\* round(n * (c - x)) for an int n, an int c of any size and a float x
RoundMul(n, c, x) == ToInt(Round(FMul(Float(n), FSub(ToFloat(c), x))))

RECURSIVE SumSeq(_)
SumSeq(s) == IF Len(s) = 0 THEN 0 ELSE Head(s) + SumSeq(Tail(s))

\* ------------------------------------------------------------- __init__
\* variant: the validation written with >=, so that lower = upper is refused
invalid_constraints_ge(bs) ==
    \E i \in 1..Len(bs) :
        IsSome(bs[i][1]) /\ IsSome(bs[i][2]) /\ Get(bs[i][1]) >= Get(bs[i][2])

\* any(b[0] is not None and b[1] is not None and b[0] > b[1] for b in bounds)
invalid_constraints(bs) ==
    \E i \in 1..Len(bs) :
        IsSome(bs[i][1]) /\ IsSome(bs[i][2]) /\ Get(bs[i][1]) > Get(bs[i][2])

\* sum(b[0] is None for b in self.bounds)
n_lower_unbounded(bs) == Cardinality({i \in 1..Len(bs) : IsNone(bs[i][1])})
\* sum(b[1] is None for b in self.bounds)
n_upper_unbounded(bs) == Cardinality({i \in 1..Len(bs) : IsNone(bs[i][2])})
\* all(b[0] is None and b[1] is None for b in self.bounds)
is_unbounded(bs) == \A i \in 1..Len(bs) : IsNone(bs[i][1]) /\ IsNone(bs[i][2])

\* variant: the sum tested for truth, so that a sum of 0 reads as absent
lower_bound_falsy(bs) ==
    IF n_lower_unbounded(bs) # 0 THEN None
    ELSE LET s == SumSeq([i \in 1..Len(bs) |-> Get(bs[i][1])])
         IN  IF s = 0 THEN None ELSE Some(s)

\* None if self.n_lower_unbounded else sum(b[0] for b in self.bounds)
lower_bound(bs) ==
    IF n_lower_unbounded(bs) # 0 THEN None
    ELSE Some(SumSeq([i \in 1..Len(bs) |-> Get(bs[i][1])]))
\* None if self.n_upper_unbounded else sum(b[1] for b in self.bounds)
upper_bound(bs) ==
    IF n_upper_unbounded(bs) # 0 THEN None
    ELSE Some(SumSeq([i \in 1..Len(bs) |-> Get(bs[i][2])]))

\* ---------------------------------------------------------- flat_bounds
\* ((b[0], False) for b in self.bounds if b[0] is not None)
RECURSIVE lower_bounds(_)
lower_bounds(bs) ==
    IF Len(bs) = 0 THEN <<>>
    ELSE (IF IsSome(Head(bs)[1]) THEN <<[x |-> Get(Head(bs)[1]), is_upper |-> FALSE]>>
          ELSE <<>>) \o lower_bounds(Tail(bs))
\* ((b[1], True) for b in self.bounds if b[1] is not None)
RECURSIVE upper_bounds(_)
upper_bounds(bs) ==
    IF Len(bs) = 0 THEN <<>>
    ELSE (IF IsSome(Head(bs)[2]) THEN <<[x |-> Get(Head(bs)[2]), is_upper |-> TRUE]>>
          ELSE <<>>) \o upper_bounds(Tail(bs))

\* insertion of e behind every element whose key is not larger (stable)
RECURSIVE InsertByKey(_, _)
InsertByKey(e, sorted) ==
    IF Len(sorted) = 0 THEN <<e>>
    ELSE IF Head(sorted).x <= e.x THEN <<Head(sorted)>> \o InsertByKey(e, Tail(sorted))
    ELSE <<e>> \o sorted
\* sorted(events, key=itemgetter(0)): a stable sort on the value
RECURSIVE SortedByKey(_, _)
SortedByKey(events, acc) ==
    IF Len(events) = 0 THEN acc
    ELSE SortedByKey(Tail(events), InsertByKey(Head(events), acc))

flat_bounds(bs) == SortedByKey(lower_bounds(bs) \o upper_bounds(bs), <<>>)

\* ---------------------------------------------------------- _solve_table
\* d[k] = v on an insertion-ordered dict held as a sequence of <<k, v>>
DictSet(d, k, v) ==
    IF \E j \in 1..Len(d) : d[j][1] = k
    THEN [j \in 1..Len(d) |-> IF d[j][1] = k THEN <<k, v>> ELSE d[j]]
    ELSE Append(d, <<k, v>>)

\* first loop: the rate after each event value and the sum of the lower bounds
RECURSIVE RTableLoop(_, _, _, _)
RTableLoop(events, budget, rate, r_table) ==
    IF Len(events) = 0 THEN [budget |-> budget, r_table |-> r_table]
    ELSE LET e == Head(events)
             rate1 == IF e.is_upper THEN rate - 1 ELSE rate + 1
             budget1 == IF e.is_upper THEN budget ELSE budget + e.x
         IN  RTableLoop(Tail(events), budget1, rate1, DictSet(r_table, e.x, rate1))

\* variant: the region's budget accumulated with the new rate instead of
\* the previous one
RECURSIVE XTableLoopNewRate(_, _, _, _, _)
XTableLoopNewRate(items, budget, prev_x, prev_rate, x_table) ==
    IF Len(items) = 0 THEN x_table
    ELSE LET x == Head(items)[1]
             rate == Head(items)[2]
             budget1 == budget + (x - prev_x) * rate
         IN  XTableLoopNewRate(Tail(items), budget1, x, rate,
                               DictSet(x_table, budget1, <<x, rate>>))

\* second loop: budget |-> (x, rate), accumulated over the linear regions
RECURSIVE XTableLoop(_, _, _, _, _)
XTableLoop(items, budget, prev_x, prev_rate, x_table) ==
    IF Len(items) = 0 THEN x_table
    ELSE LET x == Head(items)[1]
             rate == Head(items)[2]
             budget1 == budget + (x - prev_x) * prev_rate
         IN  XTableLoop(Tail(items), budget1, x, rate,
                        DictSet(x_table, budget1, <<x, rate>>))

solve_table(bs) ==
    LET first == RTableLoop(flat_bounds(bs), 0, n_lower_unbounded(bs), <<>>)
        x_table == XTableLoop(first.r_table, first.budget, 0, n_lower_unbounded(bs), <<>>)
    IN  [keys |-> [k \in 1..Len(x_table) |-> x_table[k][1]],
         values |-> [k \in 1..Len(x_table) |-> x_table[k][2]]]

\* the allocator after a successful __init__(bounds)
Allocator(bs) ==
    [bounds |-> bs,
     n_lower_unbounded |-> n_lower_unbounded(bs),
     n_upper_unbounded |-> n_upper_unbounded(bs),
     is_unbounded |-> is_unbounded(bs),
     lower_bound |-> lower_bound(bs),
     upper_bound |-> upper_bound(bs),
     table |-> solve_table(bs)]

\* an allocator that has not been built
NoAllocator ==
    [bounds |-> <<>>, n_lower_unbounded |-> 0, n_upper_unbounded |-> 0,
     is_unbounded |-> TRUE, lower_bound |-> None, upper_bound |-> None,
     table |-> [keys |-> <<>>, values |-> <<>>]]

\* -------------------------------------------------------------- _solve_x
\* variant: bisect_left, which stops in front of an equal key
RECURSIVE BisectLeftLoop(_, _, _, _)
BisectLeftLoop(a, v, lo, hi) ==
    IF lo >= hi THEN lo
    ELSE LET mid == (lo + hi) \div 2
         IN  IF v <= a[mid + 1] THEN BisectLeftLoop(a, v, lo, mid)
             ELSE BisectLeftLoop(a, v, mid + 1, hi)

\* bisect.bisect_right(a, v): binary search on the sorted tuple a
RECURSIVE BisectLoop(_, _, _, _)
BisectLoop(a, v, lo, hi) ==
    IF lo >= hi THEN lo
    ELSE LET mid == (lo + hi) \div 2
         IN  IF v < a[mid + 1] THEN BisectLoop(a, v, lo, mid)
             ELSE BisectLoop(a, v, mid + 1, hi)
bisect_right(a, v) == BisectLoop(a, v, 0, Len(a))

\* outcomes of _solve_x: a pair (x, rate) or the exception raised
Solved(x, rate) == [error |-> "none", x |-> x, rate |-> rate]
Raised(e) == [error |-> e, x |-> Zero, rate |-> 0]

\* x if not rate else x + (budget - budget_start) / rate, rate
Extrapolate(x, rate, budget_start, budget) ==
    IF rate = 0 THEN Solved(OfInt(x), rate)
    ELSE Solved(FAdd(Float(x), TrueDiv(OfInt(budget - budget_start), rate)), rate)

\* self.upper_bound and budget > self.upper_bound
ExceedsUpper(a, budget) ==
    /\ IsSome(a.upper_bound)
    /\ Get(a.upper_bound) # 0
    /\ budget > Get(a.upper_bound)

\* budget / len(self.bounds), len(self.bounds) for an int budget of any size
mean_x(a, budget) == Solved(TrueDiv(budget, Len(a.bounds)), Len(a.bounds))

solve_x(a, budget) ==
    IF a.is_unbounded
    THEN IF Len(a.bounds) = 0 THEN Raised("ZeroDivisionError")
         ELSE mean_x(a, OfInt(budget))
    ELSE LET keys == a.table.keys
             values == a.table.values
             budget_key == bisect_right(keys, budget) - 1
         IN  IF budget_key < 0
             THEN IF IsSome(a.lower_bound) THEN Raised("InsufficientBudgetError")
                  ELSE Extrapolate(values[1][1], a.n_lower_unbounded, keys[1], budget)
             ELSE IF ExceedsUpper(a, budget) THEN Raised("ExcessBudgetError")
             ELSE Extrapolate(values[budget_key + 1][1], values[budget_key + 1][2],
                              keys[budget_key + 1], budget)

\* ----------------------------------------- allocations, _integer_allocations
\* variant: the lower clamp with the comparison reversed
BelowLowerFlipped(b, x) == IsSome(b[1]) /\ FloatGt(x, Get(b[1]))
\* b[0] is not None and x < b[0]
BelowLower(b, x) == IsSome(b[1]) /\ FloatLt(x, Get(b[1]))
\* variant: the upper clamp with the comparison reversed
AboveUpperFlipped(b, x) == IsSome(b[2]) /\ FloatLt(x, Get(b[2]))
\* b[1] is not None and x > b[1]
AboveUpper(b, x) == IsSome(b[2]) /\ FloatGt(x, Get(b[2]))

allocations(a, x) ==
    [i \in 1..Len(a.bounds) |->
        IF BelowLower(a.bounds[i], x) THEN Float(Get(a.bounds[i][1]))
        ELSE IF AboveUpper(a.bounds[i], x) THEN Float(Get(a.bounds[i][2]))
        ELSE x]

\* the generator of _integer_allocations; counter is the next value of
\* itertools.count(0), advanced only by the slots that reach the last branch
RECURSIVE IntegerLoop(_, _, _, _, _, _)
IntegerLoop(bs, x, floor_x, ceil_x, n_floored, counter) ==
    IF Len(bs) = 0 THEN <<>>
    ELSE LET b == Head(bs)
         IN  IF BelowLower(b, x)
             THEN <<Get(b[1])>> \o IntegerLoop(Tail(bs), x, floor_x, ceil_x, n_floored, counter)
             ELSE IF AboveUpper(b, x)
             THEN <<Get(b[2])>> \o IntegerLoop(Tail(bs), x, floor_x, ceil_x, n_floored, counter)
             ELSE <<IF counter < n_floored THEN floor_x ELSE ceil_x>>
                  \o IntegerLoop(Tail(bs), x, floor_x, ceil_x, n_floored, counter + 1)

integer_allocations(a, x, n_nonbinding) ==
    IntegerLoop(a.bounds, x, Floor(x), Ceil(x), RoundMul(n_nonbinding, CeilOf(x), x), 0)

\* ------------------------------------------------------------------ solve
\* outcomes of solve: the tuple returned or the exception raised
Returned(vec) == [error |-> "none", vec |-> vec]
Failed(e) == [error |-> e, vec |-> <<>>]

solve(a, budget, integer) ==
    LET r == solve_x(a, budget)
    IN  IF r.error # "none" THEN Failed(r.error)
        ELSE IF ~integer THEN Returned(allocations(a, r.x))
        ELSE Returned(integer_allocations(a, r.x, r.rate))

\* _integer_allocations with floor_x and ceil_x kept as ints of any size
integer_allocations_of(a, x, n_nonbinding) ==
    IntegerLoop(a.bounds, x, FloorOf(x), CeilOf(x), RoundMul(n_nonbinding, CeilOf(x), x), 0)

\* solve(budget, integer) on an allocator without bounds, for an int budget
\* of any size
solve_unbounded(a, budget, integer) ==
    IF Len(a.bounds) = 0 THEN Failed("ZeroDivisionError")
    ELSE LET r == mean_x(a, budget)
         IN  IF ~integer THEN Returned(allocations(a, r.x))
             ELSE Returned(integer_allocations_of(a, r.x, r.rate))

\* ----------------------------------------------------------------- __eq__
\* variant: zip(p, q), which stops at the end of the shorter side
zip_shortest(p, q) ==
    LET n == IF Len(p) < Len(q) THEN Len(p) ELSE Len(q)
    IN  [i \in 1..n |-> <<<<p[i]>>, <<q[i]>>>>]

\* itertools.zip_longest(p, q): the shorter side is padded with None
zip_longest(p, q) ==
    LET n == IF Len(p) > Len(q) THEN Len(p) ELSE Len(q)
    IN  [i \in 1..n |-> <<IF i <= Len(p) THEN <<p[i]>> ELSE None,
                          IF i <= Len(q) THEN <<q[i]>> ELSE None>>]

\* all(b_self == b_val for b_self, b_val in zip_longest(self.bounds, value.bounds))
eq(a, value) ==
    LET pairs == zip_longest(a.bounds, value.bounds)
    IN  \A i \in 1..Len(pairs) : pairs[i][1] = pairs[i][2]

\* ------------------------------------------------- ints of any size
\* The constructor and solve with every int they handle (the bounds, the
\* budget, the table's keys and levels, the vector returned) held as a
\* number, so that values beyond 2^MantBits can be run.  Rates, counts and
\* indices are small.
WideMaxLen == 2
WideSpread == 24
\* the ints 2^(MantBits + 1) + d
WideVals == {Add(Number(1, NatShl(<<1>>, MantBits + 1), 0), OfInt(d)) : d \in {6, 10}}
WideOptVals == {None} \cup {Some(v) : v \in WideVals}
WideBounds == UNION {[1..n -> WideOptVals \X WideOptVals] : n \in 0..WideMaxLen}
\* the ints k * 2^(MantBits + 1) + d
WideBudgets ==
    {Add(Mul(OfInt(k), Number(1, NatShl(<<1>>, MantBits + 1), 0)), OfInt(d)) :
        k \in 1..WideMaxLen, d \in 0..WideSpread}

\* the exact sum of a sequence of numbers
RECURSIVE SumNumbers(_)
SumNumbers(s) == IF Len(s) = 0 THEN Zero ELSE Add(Head(s), SumNumbers(Tail(s)))

\* any(b[0] is not None and b[1] is not None and b[0] > b[1] for b in bounds)
invalid_constraints_wide(bs) ==
    \E i \in 1..Len(bs) :
        IsSome(bs[i][1]) /\ IsSome(bs[i][2]) /\ Less(Get(bs[i][2]), Get(bs[i][1]))

\* None if self.n_lower_unbounded else sum(b[0] for b in self.bounds)
lower_bound_wide(bs) ==
    IF n_lower_unbounded(bs) # 0 THEN None
    ELSE Some(SumNumbers([i \in 1..Len(bs) |-> Get(bs[i][1])]))
\* None if self.n_upper_unbounded else sum(b[1] for b in self.bounds)
upper_bound_wide(bs) ==
    IF n_upper_unbounded(bs) # 0 THEN None
    ELSE Some(SumNumbers([i \in 1..Len(bs) |-> Get(bs[i][2])]))

\* insertion of e behind every element whose key is not larger (stable)
RECURSIVE InsertByKeyWide(_, _)
InsertByKeyWide(e, sorted) ==
    IF Len(sorted) = 0 THEN <<e>>
    ELSE IF ~Less(e.x, Head(sorted).x)
    THEN <<Head(sorted)>> \o InsertByKeyWide(e, Tail(sorted))
    ELSE <<e>> \o sorted
\* sorted(events, key=itemgetter(0)): a stable sort on the value
RECURSIVE SortedByKeyWide(_, _)
SortedByKeyWide(events, acc) ==
    IF Len(events) = 0 THEN acc
    ELSE SortedByKeyWide(Tail(events), InsertByKeyWide(Head(events), acc))

flat_bounds_wide(bs) == SortedByKeyWide(lower_bounds(bs) \o upper_bounds(bs), <<>>)

\* first loop: the rate after each event value and the sum of the lower bounds
RECURSIVE RTableLoopWide(_, _, _, _)
RTableLoopWide(events, budget, rate, r_table) ==
    IF Len(events) = 0 THEN [budget |-> budget, r_table |-> r_table]
    ELSE LET e == Head(events)
             rate1 == IF e.is_upper THEN rate - 1 ELSE rate + 1
             budget1 == IF e.is_upper THEN budget ELSE Add(budget, e.x)
         IN  RTableLoopWide(Tail(events), budget1, rate1, DictSet(r_table, e.x, rate1))

\* second loop: budget |-> (x, rate), accumulated over the linear regions
RECURSIVE XTableLoopWide(_, _, _, _, _)
XTableLoopWide(items, budget, prev_x, prev_rate, x_table) ==
    IF Len(items) = 0 THEN x_table
    ELSE LET x == Head(items)[1]
             rate == Head(items)[2]
             budget1 == Add(budget, Mul(Add(x, Neg(prev_x)), OfInt(prev_rate)))
         IN  XTableLoopWide(Tail(items), budget1, x, rate,
                            DictSet(x_table, budget1, <<x, rate>>))

solve_table_wide(bs) ==
    LET first == RTableLoopWide(flat_bounds_wide(bs), Zero, n_lower_unbounded(bs), <<>>)
        x_table == XTableLoopWide(first.r_table, first.budget, Zero,
                                  n_lower_unbounded(bs), <<>>)
    IN  [keys |-> [k \in 1..Len(x_table) |-> x_table[k][1]],
         values |-> [k \in 1..Len(x_table) |-> x_table[k][2]]]

\* the allocator after a successful __init__(bounds)
AllocatorWide(bs) ==
    [bounds |-> bs,
     n_lower_unbounded |-> n_lower_unbounded(bs),
     n_upper_unbounded |-> n_upper_unbounded(bs),
     is_unbounded |-> is_unbounded(bs),
     lower_bound |-> lower_bound_wide(bs),
     upper_bound |-> upper_bound_wide(bs),
     table |-> solve_table_wide(bs)]

\* bisect.bisect_right(a, v): binary search on the sorted tuple a
RECURSIVE BisectLoopWide(_, _, _, _)
BisectLoopWide(a, v, lo, hi) ==
    IF lo >= hi THEN lo
    ELSE LET mid == (lo + hi) \div 2
         IN  IF Less(v, a[mid + 1]) THEN BisectLoopWide(a, v, lo, mid)
             ELSE BisectLoopWide(a, v, mid + 1, hi)

\* x if not rate else x + (budget - budget_start) / rate, rate
ExtrapolateWide(x, rate, budget_start, budget) ==
    IF rate = 0 THEN Solved(x, rate)
    ELSE Solved(FAdd(ToFloat(x), TrueDiv(Add(budget, Neg(budget_start)), rate)), rate)

\* self.upper_bound and budget > self.upper_bound
ExceedsUpperWide(a, budget) ==
    /\ IsSome(a.upper_bound)
    /\ Get(a.upper_bound) # Zero
    /\ Less(Get(a.upper_bound), budget)

solve_x_wide(a, budget) ==
    IF a.is_unbounded
    THEN IF Len(a.bounds) = 0 THEN Raised("ZeroDivisionError")
         ELSE mean_x(a, budget)
    ELSE LET keys == a.table.keys
             values == a.table.values
             budget_key == BisectLoopWide(keys, budget, 0, Len(keys)) - 1
         IN  IF budget_key < 0
             THEN IF IsSome(a.lower_bound) THEN Raised("InsufficientBudgetError")
                  ELSE ExtrapolateWide(values[1][1], a.n_lower_unbounded, keys[1], budget)
             ELSE IF ExceedsUpperWide(a, budget) THEN Raised("ExcessBudgetError")
             ELSE ExtrapolateWide(values[budget_key + 1][1], values[budget_key + 1][2],
                                  keys[budget_key + 1], budget)

\* b[0] is not None and x < b[0]
BelowLowerWide(b, x) == IsSome(b[1]) /\ Less(x, Get(b[1]))
\* b[1] is not None and x > b[1]
AboveUpperWide(b, x) == IsSome(b[2]) /\ Less(Get(b[2]), x)

allocations_wide(a, x) ==
    [i \in 1..Len(a.bounds) |->
        IF BelowLowerWide(a.bounds[i], x) THEN ToFloat(Get(a.bounds[i][1]))
        ELSE IF AboveUpperWide(a.bounds[i], x) THEN ToFloat(Get(a.bounds[i][2]))
        ELSE x]

\* the generator of _integer_allocations; counter is the next value of
\* itertools.count(0), advanced only by the slots that reach the last branch
RECURSIVE IntegerLoopWide(_, _, _, _, _, _)
IntegerLoopWide(bs, x, floor_x, ceil_x, n_floored, counter) ==
    IF Len(bs) = 0 THEN <<>>
    ELSE LET b == Head(bs)
         IN  IF BelowLowerWide(b, x)
             THEN <<Get(b[1])>> \o IntegerLoopWide(Tail(bs), x, floor_x, ceil_x, n_floored, counter)
             ELSE IF AboveUpperWide(b, x)
             THEN <<Get(b[2])>> \o IntegerLoopWide(Tail(bs), x, floor_x, ceil_x, n_floored, counter)
             ELSE <<IF counter < n_floored THEN floor_x ELSE ceil_x>>
                  \o IntegerLoopWide(Tail(bs), x, floor_x, ceil_x, n_floored, counter + 1)

integer_allocations_wide(a, x, n_nonbinding) ==
    IntegerLoopWide(a.bounds, x, FloorOf(x), CeilOf(x),
                    RoundMul(n_nonbinding, CeilOf(x), x), 0)

solve_wide(a, budget, integer) ==
    LET r == solve_x_wide(a, budget)
    IN  IF r.error # "none" THEN Failed(r.error)
        ELSE IF ~integer THEN Returned(allocations_wide(a, r.x))
        ELSE Returned(integer_allocations_wide(a, r.x, r.rate))

\* ===================================================================== state
VARIABLES
    pc,           \* "new", "ready", "returned" or "ConstraintError"
    input,        \* the bounds handed to the constructor
    self,         \* the allocator's slots
    built,        \* history: the allocator as __init__ left it
    budget,       \* arguments of the current solve call
    integer,
    result,       \* outcome of the current solve call
    last_error,   \* history: outcome kind of the previous solve call
    other,        \* a second allocator and the state of its construction
    other_pc,
    eq_result,    \* "unknown", or the value of self == other
    other_result  \* outcome of the same solve call on the second allocator

vars == <<pc, input, self, built, budget, integer, result, last_error,
          other, other_pc, eq_result, other_result>>

call_vars == <<budget, integer, result, last_error>>
other_vars == <<other, other_pc, eq_result, other_result>>

NoResult == [error |-> "no call", vec |-> <<>>]

Init ==
    /\ pc = "new"
    /\ input = <<>>
    /\ self = NoAllocator
    /\ built = NoAllocator
    /\ budget = 0
    /\ integer = TRUE
    /\ result = NoResult
    /\ last_error = "no call"
    /\ other = NoAllocator
    /\ other_pc = "new"
    /\ eq_result = "unknown"
    /\ other_result = NoResult

\* EquitableBudgetAllocator(bounds)
Construct(bs) ==
    /\ pc = "new"
    /\ input' = bs
    /\ IF invalid_constraints(bs)
       THEN /\ pc' = "ConstraintError"
            /\ UNCHANGED <<self, built>>
       ELSE /\ pc' = "ready"
            /\ self' = Allocator(bs)
            /\ built' = self'
    /\ UNCHANGED <<call_vars, other_vars>>

\* variant: a solve that records the budget it served in the solution table
solve_call_memo(a, b, i) ==
    [self |-> [a EXCEPT !.table = [keys |-> Append(@.keys, b),
                                   values |-> Append(@.values, <<0, 0>>)]],
     result |-> solve(a, b, i)]

\* the receiver after self.solve(budget, integer) and the call's outcome:
\* solve, _solve_x, allocations and _integer_allocations assign no slot
solve_call(a, b, i) == [self |-> a, result |-> solve(a, b, i)]

\* self.solve(budget, integer)
Solve(b, i) ==
    /\ pc = "ready"
    /\ budget' = b
    /\ integer' = i
    /\ LET out == solve_call(self, b, i)
       IN  /\ self' = out.self
           /\ result' = out.result
    /\ pc' = "returned"
    /\ UNCHANGED <<input, built, last_error, other_vars>>

\* the caller takes the outcome; the allocator is kept for further calls
Return ==
    /\ pc = "returned"
    /\ pc' = "ready"
    /\ last_error' = result.error
    /\ result' = NoResult
    /\ budget' = 0
    /\ integer' = TRUE
    /\ UNCHANGED <<input, self, built, other_vars>>

Next ==
    \/ \E bs \in Bounds : Construct(bs)
    \/ \E b \in Budgets, i \in BOOLEAN : Solve(b, i)
    \/ Return

Spec == Init /\ [][Next]_vars

\* ============================================================== properties
\* the aggregate bounds, read off the constructor's input
AllLower(bs) == \A i \in 1..Len(bs) : IsSome(bs[i][1])
AllUpper(bs) == \A i \in 1..Len(bs) : IsSome(bs[i][2])
SumLower(bs) == SumSeq([i \in 1..Len(bs) |-> Get(bs[i][1])])
SumUpper(bs) == SumSeq([i \in 1..Len(bs) |-> Get(bs[i][2])])
Feasible(bs, b) ==
    /\ AllLower(bs) => b >= SumLower(bs)
    /\ AllUpper(bs) => b <= SumUpper(bs)

\* an integer solve call has returned a vector
ReturnedInts == pc = "returned" /\ integer /\ result.error = "none"

SetMax(S) == CHOOSE m \in S : \A v \in S : v <= m
SetMin(S) == CHOOSE m \in S : \A v \in S : m <= v

\* slots pinned to a bound by the returned vector
AtLower(i) == IsSome(input[i][1]) /\ result.vec[i] = Get(input[i][1])
AtUpper(i) == IsSome(input[i][2]) /\ result.vec[i] = Get(input[i][2])

\* C1 -- Exhaustion: the integer vector returned for a feasible budget sums
\* exactly to the budget.
C1_Exhaustion ==
    (ReturnedInts /\ Feasible(input, budget)) => SumSeq(result.vec) = budget

\* C2 -- Constraints: every slot of a returned integer vector lies within the
\* bounds that are present for it.
C2_Constraints ==
    ReturnedInts =>
        /\ Len(result.vec) = Len(input)
        /\ \A i \in 1..Len(input) :
            /\ IsSome(input[i][1]) => result.vec[i] >= Get(input[i][1])
            /\ IsSome(input[i][2]) => result.vec[i] <= Get(input[i][2])

\* a returned vector with one slot held up at its lower bound, one slot held
\* down at its upper bound and one slot strictly inside its bounds
C2_Witness ==
    /\ ReturnedInts
    /\ \E i, j, k \in 1..Len(input) :
        /\ AtLower(i) /\ ~AtUpper(i)
        /\ AtUpper(j) /\ ~AtLower(j)
        /\ IsSome(input[k][1]) /\ IsSome(input[k][2])
        /\ ~AtLower(k) /\ ~AtUpper(k)

\* values of the slots not pinned to their lower / upper bound
HighSet == {result.vec[i] : i \in {j \in 1..Len(input) :
                IsNone(input[j][1]) \/ result.vec[j] > Get(input[j][1])}}
LowSet == {result.vec[i] : i \in {j \in 1..Len(input) :
                IsNone(input[j][2]) \/ result.vec[j] < Get(input[j][2])}}

\* C3 -- Equitability: in a returned integer vector the largest value not
\* pinned to its lower bound exceeds the smallest value not pinned to its
\* upper bound by at most 1.
C3_Equitability ==
    (ReturnedInts /\ HighSet # {} /\ LowSet # {}) =>
        SetMax(HighSet) - SetMin(LowSet) <= 1

\* both sets are non-empty, the difference is exactly 1 and some slot is
\* pinned to a bound
C3_Witness ==
    /\ ReturnedInts
    /\ HighSet # {} /\ LowSet # {}
    /\ SetMax(HighSet) - SetMin(LowSet) = 1
    /\ \E i \in 1..Len(input) : AtLower(i) \/ AtUpper(i)

\* C4 -- when every upper bound is present, a budget strictly above their sum
\* (a sum of zero included) fails with ExcessBudgetError and returns no vector.
\* Stated for allocators of at least one slot.
C4_ExcessRaises ==
    (pc = "returned" /\ Len(input) >= 1 /\ AllUpper(input) /\ budget > SumUpper(input))
        => (result.error = "ExcessBudgetError" /\ result.vec = <<>>)

\* C5 -- when every lower bound is present, a budget strictly below their sum
\* fails with InsufficientBudgetError and returns no vector.
C5_InsufficientRaises ==
    (pc = "returned" /\ AllLower(input) /\ budget < SumLower(input))
        => (result.error = "InsufficientBudgetError" /\ result.vec = <<>>)

\* C6 -- on a feasible budget solve returns a vector and raises no error of
\* any kind.
C6_FeasibleReturns ==
    (pc = "returned" /\ Feasible(input, budget))
        => (result.error = "none" /\ Len(result.vec) = Len(input))

\* C7 -- a budget equal to the sum of the lower bounds (all present) returns
\* every slot at its lower bound; a budget equal to the sum of the upper
\* bounds (all present) returns every slot at its upper bound.
C7_Boundary ==
    /\ (pc = "returned" /\ integer /\ AllLower(input) /\ budget = SumLower(input))
        => (result.error = "none" /\ Len(result.vec) = Len(input)
            /\ \A i \in 1..Len(input) : result.vec[i] = Get(input[i][1]))
    /\ (pc = "returned" /\ integer /\ AllUpper(input) /\ budget = SumUpper(input))
        => (result.error = "none" /\ Len(result.vec) = Len(input)
            /\ \A i \in 1..Len(input) : result.vec[i] = Get(input[i][2]))

\* C8 -- construction fails with ConstraintError exactly when some bound has
\* both sides present and lower > upper; any other sequence is built, with
\* its bounds kept in the given order.
C8_ConstraintError ==
    pc # "new" =>
        /\ pc = "ConstraintError" <=>
              \E i \in 1..Len(input) :
                  /\ input[i][1] # None /\ input[i][2] # None
                  /\ input[i][1][1] > input[i][2][1]
        /\ pc # "ConstraintError" => (pc \in {"ready", "returned"} /\ self.bounds = input)

\* a sequence accepted although it holds a bound with lower = upper, a bound
\* with lower < upper and a bound with an absent side
C8_Witness ==
    /\ pc = "ready"
    /\ \E i, j, k \in 1..Len(input) :
        /\ IsSome(input[i][1]) /\ IsSome(input[i][2]) /\ Get(input[i][1]) = Get(input[i][2])
        /\ IsSome(input[j][1]) /\ IsSome(input[j][2]) /\ Get(input[j][1]) < Get(input[j][2])
        /\ IsNone(input[k][1]) \/ IsNone(input[k][2])

\* C9 -- solve calls, failing ones included, leave every slot of the
\* allocator as the constructor set it, and every call gives the outcome the
\* freshly constructed allocator gives for the same arguments.
C9_Frame ==
    pc \in {"ready", "returned"} =>
        /\ self = built
        /\ self.bounds = input
        /\ pc = "returned" => result = solve(Allocator(input), budget, integer)

\* a continuous-mode call that returns a vector right after a call that
\* raised a budget error
C9_Witness ==
    /\ pc = "returned"
    /\ last_error \in {"InsufficientBudgetError", "ExcessBudgetError"}
    /\ ~integer
    /\ result.error = "none"
    /\ Len(result.vec) >= 2

\* ------------------------------------------------------- two allocators
EqMaxLen == 2
EqBounds == UNION {BoundsOfLen(n) : n \in 0..EqMaxLen}

\* EquitableBudgetAllocator(bounds) for the second allocator
ConstructOther(ob) ==
    /\ pc = "ready"
    /\ other_pc = "new"
    /\ IF invalid_constraints(ob)
       THEN /\ other_pc' = "ConstraintError"
            /\ UNCHANGED other
       ELSE /\ other_pc' = "ready"
            /\ other' = Allocator(ob)
    /\ UNCHANGED <<pc, input, self, built, call_vars, eq_result, other_result>>

\* self == other
Compare ==
    /\ pc = "ready"
    /\ other_pc = "ready"
    /\ eq_result = "unknown"
    /\ eq_result' = IF eq(self, other) THEN "True" ELSE "False"
    /\ UNCHANGED <<pc, input, self, built, call_vars, other, other_pc, other_result>>

\* the same solve call on two allocators that compared equal
SolveBoth(b, i) ==
    /\ pc = "ready"
    /\ eq_result = "True"
    /\ budget' = b
    /\ integer' = i
    /\ result' = solve(self, b, i)
    /\ other_result' = solve(other, b, i)
    /\ pc' = "returned"
    /\ UNCHANGED <<input, self, built, last_error, other, other_pc, eq_result>>

NextEq ==
    \/ \E bs \in EqBounds : Construct(bs)
    \/ \E ob \in EqBounds : ConstructOther(ob)
    \/ Compare
    \/ \E b \in Budgets, i \in BOOLEAN : SolveBoth(b, i)

SpecEq == Init /\ [][NextEq]_vars

\* C10 -- two allocators compare equal exactly when their bound sequences
\* have the same length and agree in every position, and allocators that
\* compare equal give the same outcome for the same call.
C10_Equality ==
    /\ eq_result # "unknown" =>
          (eq_result = "True" <=>
              /\ Len(self.bounds) = Len(other.bounds)
              /\ \A i \in 1..Len(self.bounds) :
                    /\ self.bounds[i][1] = other.bounds[i][1]
                    /\ self.bounds[i][2] = other.bounds[i][2])
    /\ (pc = "returned" /\ eq_result = "True") => result = other_result

\* two allocators of two slots compared equal and returned a vector
C10_Witness ==
    /\ pc = "returned"
    /\ eq_result = "True"
    /\ Len(self.bounds) = 2
    /\ result.error = "none"
    /\ other_result.error = "none"

\* C11 -- after construction lower_bound is the sum of the lower bounds when
\* all are present (a sum of 0 included) and absent otherwise; upper_bound
\* likewise for the upper bounds.
C11_AggregateBounds ==
    pc \in {"ready", "returned"} =>
        /\ self.lower_bound =
              IF \A i \in 1..Len(input) : input[i][1] # None
              THEN <<SumSeq([i \in 1..Len(input) |-> input[i][1][1]])>> ELSE <<>>
        /\ self.upper_bound =
              IF \A i \in 1..Len(input) : input[i][2] # None
              THEN <<SumSeq([i \in 1..Len(input) |-> input[i][2][1]])>> ELSE <<>>

\* three slots with non-zero lower bounds that sum to 0 and an absent upper
\* bound
C11_Witness ==
    /\ pc = "ready"
    /\ Len(input) = 3
    /\ AllLower(input) /\ ~AllUpper(input)
    /\ \E i \in 1..3 : Get(input[i][1]) # 0
    /\ self.lower_bound = Some(0)
    /\ self.upper_bound = None

\* ------------------------------------------- budgets beyond 2^MantBits
BigSpread == 4
\* the ints 2^MantBits + d and -(2^MantBits + d) for |d| <= BigSpread
BigBudgets ==
    {Add(Number(s, NatShl(<<1>>, MantBits), 0), OfInt(s * d)) :
        s \in {0 - 1, 1}, d \in (0 - BigSpread)..BigSpread}
\* the bound sequences without any bound
UnboundedBounds == {bs \in Bounds : is_unbounded(bs)}

\* self.solve(budget, integer) on an allocator without bounds
SolveBig(b, i) ==
    /\ pc = "ready"
    /\ self.is_unbounded
    /\ budget' = b
    /\ integer' = i
    /\ result' = solve_unbounded(self, b, i)
    /\ pc' = "returned"
    /\ UNCHANGED <<input, self, built, last_error, other_vars>>

NextBig ==
    \/ \E bs \in UnboundedBounds : Construct(bs)
    \/ \E b \in BigBudgets, i \in BOOLEAN : SolveBig(b, i)
    \/ Return

SpecBig == Init /\ [][NextBig]_vars

\* C12 -- an allocator of n >= 1 slots without any bound returns, for every
\* integer budget (here: the budgets next to 2^MantBits and their negatives),
\* n integers that sum to the budget and differ by at most 1.
C12_Unbounded ==
    (pc = "returned" /\ integer /\ Len(input) >= 1
        /\ \A i \in 1..Len(input) : IsNone(input[i][1]) /\ IsNone(input[i][2]))
    => /\ result.error = "none"
       /\ Len(result.vec) = Len(input)
       /\ SumNumbers(result.vec) = budget
       /\ \A i, j \in 1..Len(input) :
             ~Less(OfInt(1), Add(result.vec[i], Neg(result.vec[j])))

\* exact rationals <<num, den>> in lowest terms, den > 0
RECURSIVE Gcd(_, _)
Gcd(a, b) == IF b = 0 THEN a ELSE Gcd(b, a % b)
Rat(num, den) ==
    LET g == Gcd(Abs(num), den)
    IN  <<num \div g, den \div g>>
RatLess(p, q) == p[1] * q[2] < q[1] * p[2]
FloorRat(q) == q[1] \div q[2]
CeilRat(q) == 0 - ((0 - q[1]) \div q[2])
\* the float x holds an int
IsInteger(x) == x.e >= 0
\* the exact value y lies within 2^-40 of an int
NearInt(y) ==
    LET d == Add(y, Neg(Round(y)))
    IN  ~Less([sign |-> 1, m |-> <<1>>, e |-> 0 - 40], [d EXCEPT !.sign = Abs(@)])
\* the rationals of denominator at most MaxLen within 2^-40 of the float x:
\* the exact water levels x can stand for
ExactLevels(x) ==
    {Rat(ToInt(Round(Mul(x, OfInt(d)))), d) :
        d \in {k \in 1..MaxLen : NearInt(Mul(x, OfInt(k)))}}
RECURSIVE SumRat(_)
SumRat(s) ==
    IF Len(s) = 0 THEN <<0, 1>>
    ELSE LET t == SumRat(Tail(s))
         IN  Rat(Head(s)[1] * t[2] + t[1] * Head(s)[2], Head(s)[2] * t[2])
\* the water level x clipped to the present sides of the bound b
ClipTo(x, b) ==
    IF b[1] # None /\ RatLess(x, <<b[1][1], 1>>) THEN <<b[1][1], 1>>
    ELSE IF b[2] # None /\ RatLess(<<b[2][1], 1>>, x) THEN <<b[2][1], 1>>
    ELSE x

\* C13 -- continuous mode: for a feasible budget solve(budget, integer=False)
\* returns one common water level clipped to each slot's bounds, and with
\* the level taken as the exact rational x* it stands for, the components
\* sum to the budget.  Stated for allocators of at least one slot.
C13_Continuous ==
    (pc = "returned" /\ ~integer /\ Len(input) >= 1 /\ Feasible(input, budget))
    => /\ result.error = "none"
       /\ Len(result.vec) = Len(input)
       /\ \E k \in 1..Len(input) : \E xs \in ExactLevels(result.vec[k]) :
             /\ \A i \in 1..Len(input) :
                   result.vec[i] = IF ClipTo(xs, input[i]) = xs THEN result.vec[k]
                                   ELSE Float(ClipTo(xs, input[i])[1])
             /\ SumRat([i \in 1..Len(input) |-> ClipTo(xs, input[i])]) = <<budget, 1>>

\* the integer water level v clipped to the present sides of the bound b
ClipInt(v, b) ==
    IF b[1] # None /\ v < b[1][1] THEN b[1][1]
    ELSE IF b[2] # None /\ v > b[2][1] THEN b[2][1]
    ELSE v
\* slots whose allocation grows with the water level just above v
ActiveAt(v, bs) ==
    {i \in 1..Len(bs) : (bs[i][1] = None \/ bs[i][1][1] <= v)
                        /\ (bs[i][2] = None \/ bs[i][2][1] > v)}

\* C14 -- every table entry (keys[k], (x_k, rate_k)) has keys[k] equal to the
\* sum of x_k clipped to each slot's bounds, and rate_k >= 0 equal to the
\* number of slots with lower bound absent or <= x_k and upper bound absent
\* or > x_k.
C14_TableEntries ==
    pc \in {"ready", "returned"} =>
        \A k \in 1..Len(self.table.values) :
            LET x_k == self.table.values[k][1]
                rate_k == self.table.values[k][2]
            IN  /\ self.table.keys[k] =
                      SumSeq([i \in 1..Len(input) |-> ClipInt(x_k, input[i])])
                /\ rate_k >= 0
                /\ rate_k = Cardinality(ActiveAt(x_k, input))

\* a table of three entries with a positive rate followed by a rate of 0
C14_Witness ==
    /\ pc = "ready"
    /\ Len(self.table.values) = 3
    /\ self.table.values[1][2] > 0
    /\ self.table.values[3][2] = 0
    /\ \E i \in 1..Len(input) : IsNone(input[i][1])

\* the distinct values among the present lower and upper bounds
EventValues(bs) ==
    {bs[i][1][1] : i \in {j \in 1..Len(bs) : bs[j][1] # None}}
        \cup {bs[i][2][1] : i \in {j \in 1..Len(bs) : bs[j][2] # None}}

\* C15 -- the table has exactly one entry per distinct value among the present
\* bounds: as many entries as distinct values, their x components being those
\* values in increasing order.
C15_OnePerEvent ==
    pc \in {"ready", "returned"} =>
        /\ Len(self.table.values) = Cardinality(EventValues(input))
        /\ {self.table.values[k][1] : k \in 1..Len(self.table.values)} = EventValues(input)
        /\ \A k \in 1..(Len(self.table.values) - 1) :
              self.table.values[k][1] < self.table.values[k + 1][1]

\* C16 -- the table's keys are strictly increasing, keys and values have the
\* same length, at most 2n, and bisect_right(keys, budget) - 1 is the largest
\* index whose key is <= budget (-1 when there is none; indices from 0).
C16_Keys ==
    pc \in {"ready", "returned"} =>
        LET keys == self.table.keys
        IN  /\ \A k \in 1..(Len(keys) - 1) : keys[k] < keys[k + 1]
            /\ Len(keys) = Len(self.table.values)
            /\ Len(keys) <= 2 * Len(input)
            /\ \A b \in Budgets :
                  bisect_right(keys, b) - 1 =
                      Cardinality({k \in 1..Len(keys) : keys[k] <= b}) - 1

\* a table of at least three keys, searched for a budget that equals a key
\* other than the last
C16_Witness ==
    /\ pc = "returned"
    /\ Len(self.table.keys) >= 3
    /\ \E k \in 1..(Len(self.table.keys) - 1) : self.table.keys[k] = budget
    /\ result.error = "none"

\* C17 -- (as claimed) for a feasible budget, when some slot is not pinned to
\* its lower bound and some slot is not pinned to its upper bound, the
\* absolute difference between the largest value not pinned to a lower bound
\* and the smallest value not pinned to an upper bound is at most 1.
\* Stated for the calls whose vector sums to the budget.
C17_AbsOptimal ==
    (ReturnedInts /\ Feasible(input, budget) /\ SumSeq(result.vec) = budget
        /\ HighSet # {} /\ LowSet # {})
        => Abs(SetMax(HighSet) - SetMin(LowSet)) <= 1

\* C17 -- (amended) under the same conditions the largest value not pinned to
\* a lower bound is at most 1 above the smallest value not pinned to an upper
\* bound; it may lie any distance below it.
C17_SignedOptimal ==
    (ReturnedInts /\ Feasible(input, budget) /\ HighSet # {} /\ LowSet # {})
        => SetMax(HighSet) <= SetMin(LowSet) + 1

\* a feasible call whose only movable-down slot lies 2 below its only
\* movable-up slot
C17_Witness ==
    /\ ReturnedInts /\ Feasible(input, budget)
    /\ HighSet # {} /\ LowSet # {}
    /\ SetMin(LowSet) - SetMax(HighSet) >= 2
    /\ SumSeq(result.vec) = budget

\* slots whose bounds contain the exact water level x
NonBindingAt(x, bs) ==
    {i \in 1..Len(bs) : (bs[i][1] = None \/ bs[i][1][1] * x[2] <= x[1])
                        /\ (bs[i][2] = None \/ x[1] <= bs[i][2][1] * x[2])}

\* C18 -- for a feasible budget with a non-integer water level, x* being the
\* exact rational the returned float stands for, the rate returned with it is
\* the number of slots whose bounds contain x*, rate * (ceil(x*) - x*) is
\* an integer k in 0..rate, and the integer vector holds floor(x*) in
\* exactly k of those slots and ceil(x*) in the others.
C18_RateCount ==
    (ReturnedInts /\ Feasible(input, budget)) =>
        LET r == solve_x(self, budget)
        IN  ~IsInteger(r.x) =>
                \E x \in ExactLevels(r.x) :
                    LET slots == NonBindingAt(x, input)
                        num == r.rate * (CeilRat(x) * x[2] - x[1])
                        k == num \div x[2]
                    IN  /\ Cardinality(slots) = r.rate
                        /\ num % x[2] = 0
                        /\ 0 <= k /\ k <= r.rate
                        /\ Cardinality({i \in slots : result.vec[i] = FloorRat(x)}) = k
                        /\ Cardinality({i \in slots : result.vec[i] = CeilRat(x)}) = r.rate - k

\* ---------------------------------------- the run with ints of any size
\* EquitableBudgetAllocator(bounds)
ConstructWide(bs) ==
    /\ pc = "new"
    /\ input' = bs
    /\ IF invalid_constraints_wide(bs)
       THEN /\ pc' = "ConstraintError"
            /\ UNCHANGED <<self, built>>
       ELSE /\ pc' = "ready"
            /\ self' = AllocatorWide(bs)
            /\ built' = self'
    /\ UNCHANGED <<call_vars, other_vars>>

\* self.solve(budget, integer)
SolveWide(b, i) ==
    /\ pc = "ready"
    /\ budget' = b
    /\ integer' = i
    /\ result' = solve_wide(self, b, i)
    /\ pc' = "returned"
    /\ UNCHANGED <<input, self, built, last_error, other_vars>>

NextWide ==
    \/ \E bs \in WideBounds : ConstructWide(bs)
    \/ \E b \in WideBudgets, i \in BOOLEAN : SolveWide(b, i)
    \/ Return

SpecWide == Init /\ [][NextWide]_vars

\* C19 -- monotonicity in the budget: for one allocator and two integer
\* budgets B1 <= B2 on which solve returns, no slot of solve(B1) exceeds the
\* same slot of solve(B2).
C19_Monotone ==
    ReturnedInts =>
        \A b2 \in WideBudgets :
            LET r2 == solve_wide(self, b2, TRUE)
            IN  (~Less(b2, budget) /\ r2.error = "none") =>
                    \A i \in 1..Len(input) : ~Less(r2.vec[i], result.vec[i])

====
